---- MODULE Spec2Model ----
(***************************************************************************)
(* Model of update_data.py: the batch pipeline that loads the index        *)
(* constituents, fetches a quote and the last earnings surprise for each   *)
(* symbol, keeps the symbols with "good earnings", sorts them, renders the *)
(* HTML page and writes it to index.html.                                  *)
(*                                                                         *)
(* Python values are modelled as follows.  An optional value (a value or   *)
(* None) is a sequence of length at most one: None is <<>>, x is <<x>>.    *)
(* A string that is compared for order (a ticker symbol) is the sequence   *)
(* of its character codes.  A float is an integer; a price is an integer   *)
(* number of cents.  A JSON field is a record [k, v]: k = "absent" when    *)
(* the key is missing, "null" when it is present with value null, "num"    *)
(* when it carries the number v.  A piece of text of the HTML page is a    *)
(* token: a record whose field t tells an opening brace ("lb"), a closing  *)
(* brace ("rb"), a line break ("nl"), a table row ("row") or any other     *)
(* text ("lit").                                                           *)
(***************************************************************************)
EXTENDS Integers, Sequences, FiniteSets, TLC

VARIABLES
    token,         \* main: os.getenv("FINNHUB_API_KEY"), None when unset
    pc,            \* position of main
    error,         \* the exception that ended main, "" when none
    sp500,         \* main: the constituent list
    i,             \* index (from 1) of the loop's current item
    quote,         \* main: result of fetch_quote for the current item
    earnings,      \* main: result of fetch_last_earnings for the current item
    good,          \* main: result of is_good_earnings, None before the first
    entries,       \* main: the list of report entries
    skipped,       \* symbols that took the `continue` of the loop
    earningsResp,  \* the response the last earnings request received
    requests,      \* the market-data requests issued so far, in order
    pageFetches,   \* number of fetches of the constituent page
    file,          \* content of index.html
    writes,        \* number of times index.html was opened for writing
    printed        \* the count printed in the summary line, None if not printed

vars == <<token, pc, error, sp500, i, quote, earnings, good, entries, skipped,
          earningsResp, requests, pageFetches, file, writes, printed>>

None == <<>>
Some(x) == <<x>>

(***************************************************************************)
(* Bounds and input domains.                                               *)
(***************************************************************************)
MaxN == 2

\* "AAA", "AZ", "ZZZ" as character codes
AAA == <<65, 65, 65>>
AZ == <<65, 90>>
ZZZ == <<90, 90, 90>>
Symbols == {AAA, AZ, ZZZ}

NameOf(s) == IF s = AAA THEN "Alpha Corp" ELSE IF s = AZ THEN "Azure Inc" ELSE "Zeta Ltd"

Tokens == {None, Some(""), Some("key")}

Floats == {0, 1}
Prices == {10123}
Years == {2026}

RECURSIVE SeqsOfLen(_, _)
SeqsOfLen(S, n) ==
    IF n = 0 THEN {<<>>}
    ELSE {Append(q, x) : q \in SeqsOfLen(S, n - 1), x \in S}

Distinct(q) == \A a, b \in 1..Len(q) : a # b => q[a] # q[b]

\* The constituent lists the page can yield: distinct symbols, any order.
ConstituentLists ==
    {[k \in 1..Len(q) |-> [symbol |-> q[k], name |-> NameOf(q[k])]] :
        q \in {r \in UNION {SeqsOfLen(Symbols, n) : n \in 0..MaxN} : Distinct(r)}}

Absent == [k |-> "absent", v |-> 0]
Null == [k |-> "null", v |-> 0]
Num(n) == [k |-> "num", v |-> n]
Fields == {Absent, Null} \cup {Num(n) : n \in Floats}

NoRec == [actual |-> Absent, estimate |-> Absent,
          revenueActual |-> Absent, revenueEstimate |-> Absent]
Recs == [actual : Fields, estimate : Fields,
         revenueActual : Fields, revenueEstimate : Fields]

\* status: what session.get / raise_for_status / resp.json() do.
FailStatus == {"neterr", "timeout", "http", "badjson"}

NoResp == [status |-> "none", body |-> "empty", rec |-> NoRec]
EarningsResponses ==
    {[status |-> s, body |-> "empty", rec |-> NoRec] : s \in FailStatus}
    \cup {[status |-> "ok", body |-> b, rec |-> NoRec] : b \in {"empty", "badelem"}}
    \cup {[status |-> "ok", body |-> "list", rec |-> r] : r \in Recs}

QuoteResponses ==
    {[status |-> s, c |-> Absent] : s \in FailStatus}
    \cup {[status |-> "ok", c |-> f] : f \in {Absent, Null} \cup {Num(p) : p \in Prices}}

(***************************************************************************)
(* fetch_quote: the request raises (network error, timeout), or            *)
(* raise_for_status raises (non-2xx), or resp.json() raises (malformed     *)
(* body), or float(data.get("c")) raises on None (key missing or null);    *)
(* every exception is caught and gives None.                               *)
(***************************************************************************)
fetch_quote(resp) ==
    IF resp.status # "ok" THEN None
    ELSE IF resp.c.k # "num" THEN None
    ELSE Some(resp.c.v)

(***************************************************************************)
(* rec.get(key, 0): the field's value, 0 when the key is missing.          *)
(* float(x) raises TypeError on None.                                      *)
(***************************************************************************)
\* A variant without the default: rec.get(key) gives None for a missing key.
GetNoDefault(f) == IF f.k = "absent" THEN Null ELSE f

GetOrZero(f) == IF f.k = "absent" THEN Num(0) ELSE f

FloatRaises(f) == f.k = "null"

(***************************************************************************)
(* fetch_last_earnings: any exception of the request, of raise_for_status, *)
(* of resp.json(), of records[0], of rec.get or of float gives None; so    *)
(* does an empty response.                                                 *)
(***************************************************************************)
fetch_last_earnings(resp) ==
    IF resp.status # "ok" THEN None
    ELSE IF resp.body = "empty" THEN None
    ELSE IF resp.body = "badelem" THEN None
    ELSE LET a == GetOrZero(resp.rec.actual)
             e == GetOrZero(resp.rec.estimate)
             ra == GetOrZero(resp.rec.revenueActual)
             re == GetOrZero(resp.rec.revenueEstimate)
         IN  IF \E f \in {a, e, ra, re} : FloatRaises(f) THEN None
             ELSE Some([actual_eps |-> a.v, estimate_eps |-> e.v,
                        actual_revenue |-> ra.v, estimate_revenue |-> re.v])

(***************************************************************************)
(* is_good_earnings                                                        *)
(***************************************************************************)
\* A variant with a non-strict comparison on the EPS leg.
is_good_earnings_ge(record) ==
    /\ record.actual_eps >= record.estimate_eps
    /\ record.actual_revenue > record.estimate_revenue

is_good_earnings(record) ==
    /\ record.actual_eps > record.estimate_eps
    /\ record.actual_revenue > record.estimate_revenue

(***************************************************************************)
(* entries.sort(key=lambda e: e["symbol"]): a stable sort by the symbol,   *)
(* compared as Python compares strings (code point by code point, a        *)
(* proper prefix first).                                                   *)
(***************************************************************************)
RECURSIVE StrLess(_, _)
StrLess(a, b) ==
    IF a = <<>> THEN b # <<>>
    ELSE IF b = <<>> THEN FALSE
    ELSE IF a[1] # b[1] THEN a[1] < b[1]
    ELSE StrLess(Tail(a), Tail(b))

RECURSIVE InsertByKey(_, _)
InsertByKey(e, sorted) ==
    IF sorted = <<>> THEN <<e>>
    ELSE IF StrLess(e.symbol, Head(sorted).symbol) THEN <<e>> \o sorted
    ELSE <<Head(sorted)>> \o InsertByKey(e, Tail(sorted))

RECURSIVE StableSort(_, _)
StableSort(es, acc) ==
    IF es = <<>> THEN acc
    ELSE StableSort(Tail(es), InsertByKey(Head(es), acc))

\* A variant that leaves the list in arrival order.
SortOmitted(es) == es

SortBySymbol(es) == StableSort(es, <<>>)

(***************************************************************************)
(* build_html.  html_parts is a list of lines; a line is a sequence of     *)
(* tokens.  The text between braces is kept as it stands in the source:    *)
(* the token after an opening brace is what str.format reads as the field  *)
(* name (the text up to the first ':'), the next one its format spec.      *)
(***************************************************************************)
Lit(s) == [t |-> "lit", v |-> s]
LB == [t |-> "lb", v |-> ""]
RB == [t |-> "rb", v |-> ""]
NL == [t |-> "nl", v |-> ""]

Plain(s) == <<Lit(s)>>
CssRule(selector, prop) == <<Lit(selector), LB, Lit(prop), Lit(": ...;"), RB>>

\* {price:.2f} of a price held in cents: the dollars and the two decimals.
Fmt2(cents) == <<cents \div 100, cents % 100>>

HeaderLines == <<
    Plain("<!DOCTYPE html>"),
    Plain("<html lang=ja>"),
    Plain("<head>"),
    Plain("  <meta charset=UTF-8>"),
    Plain("  <meta name=viewport ...>"),
    Plain("  <title>...</title>"),
    Plain("  <style>"),
    CssRule("    body ", " font-family"),
    CssRule("    header ", " background"),
    CssRule("    header h1 ", " margin"),
    CssRule("    header .tagline ", " margin-top"),
    CssRule("    main ", " max-width"),
    CssRule("    h2 ", " margin-top"),
    CssRule("    section ", " margin-bottom"),
    CssRule("    p ", " margin-bottom"),
    CssRule("    ol ", " margin-left"),
    CssRule("    ol li ", " margin-bottom"),
    CssRule("    table ", " width"),
    CssRule("    table th, table td ", " padding"),
    CssRule("    table th ", " background-color"),
    CssRule("    table tbody tr:nth-child(even) ", " background-color"),
    CssRule("    table tbody tr:hover ", " background-color"),
    CssRule("    .good ", " color"),
    CssRule("    .no ", " color"),
    CssRule("    .note ", " font-size"),
    CssRule("    footer ", " text-align"),
    CssRule("    footer a ", " color"),
    Plain("  </style>"),
    Plain("</head>"),
    Plain("<body>"),
    Plain("  <header> ... </header>"),
    Plain("  <main>"),
    Plain("    <section id=about> ... </section>"),
    Plain("    <section id=good-earnings> ... </section>"),
    Plain("    <section id=table-section>"),
    Plain("      <h2>...</h2>"),
    Plain("      <table>"),
    Plain("        <thead> ... </thead>"),
    Plain("        <tbody>") >>

FooterLines == <<
    Plain("        </tbody>"),
    Plain("      </table>"),
    Plain("      <p class=note>...</p>"),
    Plain("    </section>"),
    Plain("    <section id=footnotes> ... </section>"),
    Plain("  </main>"),
    Plain("  <footer>"),
    <<Lit("    <p>&copy; "), LB, Lit("year"), RB, Lit(" ... All rights reserved.</p>")>>,
    Plain("  </footer>"),
    Plain("</body>"),
    Plain("</html>") >>

\* The f-string of one table row.
RowLine(entry) ==
    <<[t |-> "row",
       v |-> [name |-> entry.name, symbol |-> entry.symbol,
              price |-> Fmt2(entry.price),
              cls |-> IF entry.good THEN "good" ELSE "no",
              text |-> IF entry.good THEN "yoi kessan" ELSE "gaitou nashi"]]>>

html_parts(es) ==
    HeaderLines \o [k \in 1..Len(es) |-> RowLine(es[k])] \o FooterLines

\* "\n".join(lines)
RECURSIVE Join(_)
Join(lines) ==
    IF lines = <<>> THEN <<>>
    ELSE IF Len(lines) = 1 THEN lines[1]
    ELSE lines[1] \o <<NL>> \o Join(Tail(lines))

RECURSIVE FindRb(_, _)
FindRb(toks, k) ==
    IF k > Len(toks) THEN 0
    ELSE IF toks[k].t = "rb" THEN k
    ELSE FindRb(toks, k + 1)

Raised(e) == [ok |-> FALSE, err |-> e, out |-> <<>>]

(***************************************************************************)
(* str.format with keywords kw: "{{" and "}}" are literal braces; "{name}" *)
(* is replaced by kw[name]; a name kw lacks raises KeyError, an empty name *)
(* is positional and raises IndexError, a single brace raises ValueError,  *)
(* and so does a format spec an int does not understand.                   *)
(***************************************************************************)
RECURSIVE Format(_, _, _)
Format(toks, kw, out) ==
    IF toks = <<>> THEN [ok |-> TRUE, err |-> "", out |-> out]
    ELSE LET h == Head(toks)
             n == Len(toks)
         IN  IF h.t = "lb"
             THEN IF n >= 2 /\ toks[2].t = "lb"
                  THEN Format(SubSeq(toks, 3, n), kw, Append(out, Lit("{")))
                  ELSE LET e == FindRb(toks, 2) IN
                       IF e = 0 THEN Raised("ValueError")
                       ELSE IF e = 2 THEN Raised("IndexError")
                       ELSE IF toks[2].v \notin DOMAIN kw THEN Raised("KeyError")
                       ELSE IF e > 3 THEN Raised("ValueError")
                       ELSE Format(SubSeq(toks, e + 1, n), kw,
                                   Append(out, [t |-> "num", v |-> kw[toks[2].v]]))
             ELSE IF h.t = "rb"
             THEN IF n >= 2 /\ toks[2].t = "rb"
                  THEN Format(SubSeq(toks, 3, n), kw, Append(out, Lit("}")))
                  ELSE Raised("ValueError")
             ELSE Format(Tail(toks), kw, Append(out, h))

build_html(es, year) == Format(Join(html_parts(es)), [year |-> year], <<>>)

\* The table rows of a document or of a list of lines.
Rows(toks) == SelectSeq(toks, LAMBDA x : x.t = "row")

(***************************************************************************)
(* main                                                                    *)
(***************************************************************************)
OldFile == <<Lit("index.html of the previous run")>>

NoError == [at |-> "", exc |-> ""]

LoadErrors == {"URLError", "ValueError", "KeyError"}

Init ==
    /\ token \in Tokens
    /\ pc = "start"
    /\ error = NoError
    /\ sp500 = <<>>
    /\ i = 1
    /\ quote = None
    /\ earnings = None
    /\ good = None
    /\ entries = <<>>
    /\ skipped = {}
    /\ earningsResp = NoResp
    /\ requests = <<>>
    /\ pageFetches = 0
    /\ file = OldFile
    /\ writes = 0
    /\ printed = None

\* A variant that tests `token is None` only.
TokenUnset(tok) == tok = None

\* `not token`: unset or empty.
TokenMissing(tok) == tok = None \/ tok = Some("")

\* The head of `for item in sp500` with k the index of the next item.
LoopAt(list, k) == IF k > Len(list) THEN "sort" ELSE "quote"

CheckToken ==
    /\ pc = "start"
    /\ IF TokenMissing(token)
       THEN pc' = "fatal" /\ error' = [at |-> "config", exc |-> "RuntimeError"]
       ELSE pc' = "load" /\ error' = error
    /\ UNCHANGED <<token, sp500, i, quote, earnings, good, entries, skipped,
                   earningsResp, requests, pageFetches, file, writes, printed>>

\* get_sp500_symbols returns the constituent list.
Load ==
    /\ pc = "load"
    /\ \E list \in ConstituentLists :
          /\ sp500' = list
          /\ pc' = LoopAt(list, 1)
    /\ pageFetches' = pageFetches + 1
    /\ entries' = <<>>
    /\ i' = 1
    /\ UNCHANGED <<token, error, quote, earnings, good, skipped,
                   earningsResp, requests, file, writes, printed>>

\* get_sp500_symbols raises: the page is unreachable, holds no table, or the
\* first table lacks the Symbol or Security column.
LoadFail ==
    /\ pc = "load"
    /\ \E e \in LoadErrors : error' = [at |-> "load", exc |-> e]
    /\ pageFetches' = pageFetches + 1
    /\ pc' = "fatal"
    /\ UNCHANGED <<token, sp500, i, quote, earnings, good, entries, skipped,
                   earningsResp, requests, file, writes, printed>>

\* A variant that asks for the earnings only when the quote is there.
AfterQuoteIfAny(q) == IF q = None THEN "eval" ELSE "earnings"

\* The statement after `quote = fetch_quote(...)`.
AfterQuote(q) == "earnings"

FetchQuote ==
    /\ pc = "quote"
    /\ \E resp \in QuoteResponses :
          /\ quote' = fetch_quote(resp)
          /\ pc' = AfterQuote(fetch_quote(resp))
    /\ requests' = Append(requests, [kind |-> "quote", symbol |-> sp500[i].symbol])
    /\ UNCHANGED <<token, error, sp500, i, earnings, good, entries, skipped,
                   earningsResp, pageFetches, file, writes, printed>>

FetchEarnings ==
    /\ pc = "earnings"
    /\ \E resp \in EarningsResponses :
          /\ earnings' = fetch_last_earnings(resp)
          /\ earningsResp' = resp
    /\ requests' = Append(requests, [kind |-> "earnings", symbol |-> sp500[i].symbol])
    /\ pc' = "eval"
    /\ UNCHANGED <<token, error, sp500, i, quote, good, entries, skipped,
                   pageFetches, file, writes, printed>>

\* A variant that appends every evaluated symbol.
KeepAll(g) == TRUE

\* `if good:`
KeepEntry(g) == g

\* Lines 254-258 and the step to the next item.
Evaluate ==
    /\ pc = "eval"
    /\ IF quote = None \/ earnings = None
       THEN /\ skipped' = skipped \cup {sp500[i].symbol}
            /\ UNCHANGED <<good, entries>>
       ELSE LET g == is_good_earnings(earnings[1]) IN
            /\ good' = Some(g)
            /\ entries' = IF KeepEntry(g)
                          THEN Append(entries, [name |-> sp500[i].name,
                                                symbol |-> sp500[i].symbol,
                                                price |-> quote[1],
                                                good |-> g])
                          ELSE entries
            /\ UNCHANGED skipped
    /\ i' = i + 1
    /\ pc' = LoopAt(sp500, i + 1)
    /\ earningsResp' = NoResp
    /\ UNCHANGED <<token, error, sp500, quote, earnings, requests,
                   pageFetches, file, writes, printed>>

Sort ==
    /\ pc = "sort"
    /\ entries' = SortBySymbol(entries)
    /\ pc' = "render"
    /\ UNCHANGED <<token, error, sp500, i, quote, earnings, good, skipped,
                   earningsResp, requests, pageFetches, file, writes, printed>>

\* A variant that opens index.html before it renders: open(path, "w")
\* truncates the file, and a failing build_html leaves it empty.
OutputFileOpenedFirst(old, r) == IF r.ok THEN r.out ELSE <<>>

\* index.html after lines 263-267: build_html runs before the file is
\* opened, so an exception in it leaves the file as it was.
OutputFile(old, r) == IF r.ok THEN r.out ELSE old

\* Lines 263-268.
RenderAndWrite ==
    /\ pc = "render"
    /\ \E year \in Years :
          LET r == build_html(entries, year) IN
          /\ file' = OutputFile(file, r)
          /\ writes' = IF r.ok THEN writes + 1 ELSE writes
          /\ printed' = IF r.ok THEN Some(Len(entries)) ELSE None
          /\ pc' = IF r.ok THEN "done" ELSE "fatal"
          /\ error' = IF r.ok THEN error ELSE [at |-> "render", exc |-> r.err]
    /\ UNCHANGED <<token, sp500, i, quote, earnings, good, entries, skipped,
                   earningsResp, requests, pageFetches>>

Next ==
    \/ CheckToken
    \/ Load
    \/ LoadFail
    \/ FetchQuote
    \/ FetchEarnings
    \/ Evaluate
    \/ Sort
    \/ RenderAndWrite

Spec == Init /\ [][Next]_vars

(***************************************************************************)
(* Properties                                                              *)
(***************************************************************************)
\* The loop has been entered: the credential was there and the list loaded.
Loaded == pc \in {"quote", "earnings", "eval", "sort", "render", "done"} \/ error.at = "render"

\* The loop is over and the entries are sorted: the list build_html gets.
Handed == pc \in {"render", "done"} \/ error.at = "render"

Finished == pc \in {"done", "fatal"}

\* Ascending order of the three tickers: "AAA" < "AZ" < "ZZZ".
Rank(s) == IF s = AAA THEN 1 ELSE IF s = AZ THEN 2 ELSE 3

Strict(rec) ==
    /\ rec.actual_eps > rec.estimate_eps
    /\ rec.actual_revenue > rec.estimate_revenue

AnyAbsent(rec) ==
    \/ rec.actual.k = "absent"
    \/ rec.estimate.k = "absent"
    \/ rec.revenueActual.k = "absent"
    \/ rec.revenueEstimate.k = "absent"

AnyNull(rec) ==
    \/ rec.actual.k = "null"
    \/ rec.estimate.k = "null"
    \/ rec.revenueActual.k = "null"
    \/ rec.revenueEstimate.k = "null"

ValueOrZero(f) == IF f.k = "absent" THEN 0 ELSE f.v

\* C1: in every finished run that got past the loading of the constituents
\* and in which some symbol's quote or earnings fetch failed, main has
\* completed (rendered, written index.html once, printed the summary), no
\* failed symbol is among the entries, and the printed count is the number
\* of entries.
C1_FailedSymbolExcludedRunCompletes ==
    (Finished /\ Loaded /\ skipped # {}) =>
        /\ pc = "done"
        /\ error = NoError
        /\ writes = 1
        /\ printed = Some(Len(entries))
        /\ \A k \in 1..Len(entries) : entries[k].symbol \notin skipped

\* C2: with FINNHUB_API_KEY unset or empty, no network request is ever made
\* (no page fetch, no quote request, no earnings request) and main, once it
\* has run its first statement, has ended with the configuration error.
C2_NoCredentialNoNetwork ==
    (token = None \/ token = Some("")) =>
        /\ requests = <<>>
        /\ pageFetches = 0
        /\ pc \in {"start", "fatal"}
        /\ pc = "fatal" => error = [at |-> "config", exc |-> "RuntimeError"]

C2_Witness == pc = "fatal" /\ token = Some("") /\ error.at = "config"

\* C3: in every run that ended in a fatal failure, index.html was never
\* opened for writing and holds its previous content.
C3_FatalLeavesFileUntouched ==
    pc = "fatal" => (file = OldFile /\ writes = 0)

C3_Witness == pc = "fatal" /\ error.at = "load" /\ pageFetches = 1 /\ file = OldFile

\* C4: every entry of the entries list is of a constituent already
\* processed, for which quote and earnings were both available (it did not
\* take the `continue`), carries a price and the flag good = TRUE, and its
\* table row has the qualifying class.
C4_EntriesAllQualify ==
    \A k \in 1..Len(entries) :
        /\ entries[k].good = TRUE
        /\ RowLine(entries[k])[1].v.cls = "good"
        /\ entries[k].symbol \notin skipped
        /\ entries[k].price \in Prices
        /\ \E j \in 1..(i - 1) :
              /\ sp500[j].symbol = entries[k].symbol
              /\ sp500[j].name = entries[k].name

C4_Witness ==
    /\ error.at = "render"
    /\ Len(entries) = 1
    /\ Len(sp500) = 2
    /\ skipped = {}

\* C5: the entry list handed to build_html is in ascending symbol order,
\* and so are the table rows build_html makes of it, whatever the order of
\* the constituents.
C5_EntriesSortedBySymbol ==
    Handed =>
        /\ \A a, b \in 1..Len(entries) :
              a < b => Rank(entries[a].symbol) < Rank(entries[b].symbol)
        /\ LET rows == Rows(Join(html_parts(entries))) IN
           /\ Len(rows) = Len(entries)
           /\ \A a, b \in 1..Len(rows) :
                 a < b => Rank(rows[a].v.symbol) < Rank(rows[b].v.symbol)

C5_Witness ==
    /\ Handed
    /\ Len(sp500) = 2
    /\ sp500[1].symbol = ZZZ
    /\ sp500[2].symbol = AAA
    /\ Len(entries) = 2
    /\ entries[1].symbol = AAA
    /\ entries[2].symbol = ZZZ

\* C6: when main evaluates an earnings record, the result is TRUE if actual
\* EPS and actual revenue are both strictly above their estimates, FALSE if
\* either is equal to or below its estimate, and the evaluation changes
\* neither the record nor anything else outside main's own bookkeeping.
C6_StrictOnBothLegs ==
    [][(pc = "eval" /\ quote # None /\ earnings # None) =>
          LET r == earnings[1] IN
          /\ (r.actual_eps > r.estimate_eps /\ r.actual_revenue > r.estimate_revenue)
                => good' = Some(TRUE)
          /\ (r.actual_eps <= r.estimate_eps \/ r.actual_revenue <= r.estimate_revenue)
                => good' = Some(FALSE)
          /\ UNCHANGED <<earnings, quote, sp500, requests, file, token>>]_vars

\* Just after an evaluation: EPS equal to its estimate, revenue above.
C6_Witness ==
    /\ pc \in {"quote", "sort"}
    /\ i > 1
    /\ quote # None
    /\ earnings # None
    /\ earnings[1].actual_eps = earnings[1].estimate_eps
    /\ earnings[1].actual_revenue > earnings[1].estimate_revenue
    /\ good = Some(FALSE)

\* C7: for every entry list that reaches it, the empty one included,
\* build_html returns a document without raising, with one table row per
\* entry in the order given.
C7_BuildHtmlReturnsDocument ==
    pc = "render" =>
        \A year \in Years :
            LET r == build_html(entries, year) IN
            /\ r.ok
            /\ Rows(r.out) = [k \in 1..Len(entries) |-> RowLine(entries[k])[1]]

\* C8: a run with the credential present and the constituents loaded never
\* fails, writes nothing before every constituent is processed, and when it
\* is finished has processed every constituent, written index.html exactly
\* once, and printed the number of table rows written.
C8_RunCompletes ==
    Loaded =>
        /\ pc # "fatal"
        /\ pc \in {"quote", "earnings", "eval", "sort", "render"} => writes = 0
        /\ Finished =>
              /\ pc = "done"
              /\ i = Len(sp500) + 1
              /\ writes = 1
              /\ printed = Some(Len(Rows(file)))

\* C9 as claimed: whenever the first element of the response lacks one of
\* the four fields, the result is None.
C9_MissingFieldIsUnavailable ==
    (pc = "eval" /\ earningsResp.status = "ok" /\ earningsResp.body = "list"
        /\ AnyAbsent(earningsResp.rec)) => earnings = None

\* C9 amended: the result is None exactly when the request failed, the
\* response is empty or its first element is no object, or one of the four
\* fields is present but not numeric; a missing field is read as 0.
C9_MissingFieldReadsAsZero ==
    pc = "eval" =>
        LET r == earningsResp IN
        /\ earnings = None <=>
              (r.status # "ok" \/ r.body # "list" \/ AnyNull(r.rec))
        /\ earnings # None =>
              /\ earnings[1].actual_eps = ValueOrZero(r.rec.actual)
              /\ earnings[1].estimate_eps = ValueOrZero(r.rec.estimate)
              /\ earnings[1].actual_revenue = ValueOrZero(r.rec.revenueActual)
              /\ earnings[1].estimate_revenue = ValueOrZero(r.rec.revenueEstimate)

\* A record without an estimate that goes on to qualify.
C9_Witness ==
    /\ pc = "eval"
    /\ earningsResp.status = "ok"
    /\ earningsResp.body = "list"
    /\ earningsResp.rec.estimate.k = "absent"
    /\ earningsResp.rec.actual = Num(1)
    /\ quote # None
    /\ earnings # None
    /\ earnings[1].estimate_eps = 0
    /\ Strict(earnings[1])

\* C10: the requests issued are, constituent by constituent and in list
\* order, the quote request and then the earnings request, the latter also
\* when the quote was unavailable: 2 per constituent processed, 2*N once
\* the loop is over, none before.
C10_TwoRequestsPerSymbol ==
    /\ Len(requests) =
          IF pc = "quote" THEN 2 * (i - 1)
          ELSE IF pc = "earnings" THEN 2 * (i - 1) + 1
          ELSE IF pc = "eval" THEN 2 * i
          ELSE IF Handed \/ pc = "sort" THEN 2 * Len(sp500)
          ELSE 0
    /\ \A k \in 1..Len(requests) :
          /\ requests[k].kind = IF k % 2 = 1 THEN "quote" ELSE "earnings"
          /\ requests[k].symbol = sp500[(k + 1) \div 2].symbol

C10_Witness ==
    /\ pc = "eval"
    /\ i = 2
    /\ quote = None
    /\ Len(requests) = 4
    /\ requests[4] = [kind |-> "earnings", symbol |-> sp500[2].symbol]

====
